---- MODULE Spec2Model ----
(***************************************************************************)
(* A model of databend_driver/client.py: the Client of the databend HTTP   *)
(* driver and its paginated result retrieval.                              *)
(*                                                                         *)
(* One query at a time runs on the client.  A query is answered by a       *)
(* chain of server responses: connection.query returns the first page,     *)
(* connection.next_page(next_uri) every later one.  What the server (and   *)
(* the environment) does at a position of the chain is chosen when the     *)
(* client asks for it, and `server` records the chain as served so far.    *)
(* A behaviour of the model is a walk of the client code over that chain,  *)
(* one source line (or one call) per step.  Every variable is reset when a *)
(* new query is issued.                                                    *)
(***************************************************************************)
EXTENDS Integers, Sequences, FiniteSets, TLC

\* ------------------------------------------------------------------ bounds
MaxPages == 3      \* longest chain of server responses of one query
MaxRows == 2       \* most rows of one page
MaxQueries == 2    \* queries issued on one client
MaxPulls == 2      \* next() calls made on a finished row generator
MaxDisconnects == 2 \* Client.disconnect calls the caller makes in a row
MaxOptions == 3    \* options in the query string of a connection URL

\* --------------------------------------------------------------- constants
Null == 0          \* JSON null / Python None as the value of next_uri
Absent == 0 - 1    \* the key 'next_uri' is not in the decoded dict

\* ------------------------------------------------------------------ pages
\* A row is an ordered sequence of column values; row j of page k is <<k, j>>,
\* so every row of a query is distinct and its origin can be read off.
Row(k, j) == <<k, j>>

Data(k, n) == [j \in 1..n |-> Row(k, j)]

\* The server's continuation chaining: page k names page k+1 when more pages
\* follow, and the last page carries next_uri = null.
NextUri(k, more) == IF more THEN k + 1 ELSE Null

ErrCode(k) == 500 + k

Schemas ==
    { << [name |-> "a", type |-> "UInt8"], [name |-> "b", type |-> "String"] >>,
      << [name |-> "a", type |-> "String"], [name |-> "b", type |-> "UInt8"] >> }

NoSchema == << >>

\* What happens at position k of the chain of responses.  kind says what the
\* call that asks for this position meets:
\*   "ok"     a well-formed page without error
\*   "err"    a well-formed page that carries an embedded error
\*   "bad"    a payload that is not valid JSON
\*   "empty"  the payload {} (a dict without any key)
\*   "nouri"  a page whose dict lacks the key next_uri
\*   "xport"  the transport call raises (network, timeout, auth)
\*   "intr"   KeyboardInterrupt is delivered while the call is outstanding
\* data are the rows the server holds for this position.
Page(kind, k, more, cnt, sch) ==
    [ kind     |-> kind,
      schema   |-> IF kind = "empty" THEN NoSchema ELSE sch,
      data     |-> IF kind = "empty" THEN << >> ELSE Data(k, cnt),
      next_uri |-> IF kind \in {"empty", "nouri"} THEN Absent ELSE NextUri(k, more),
      error    |-> IF kind = "err" THEN ErrCode(k) ELSE 0 ]

NoPage ==
    [ kind |-> "none", schema |-> NoSchema, data |-> << >>,
      next_uri |-> Absent, error |-> 0 ]

FirstKinds == {"ok", "err", "xport", "intr"}

NextKinds == {"ok", "err", "bad", "empty", "nouri", "xport", "intr"}

\* The responses the server may give at position k: a chain has at most
\* MaxPages positions, so the page at position MaxPages is the last.
PageOptions(k, sch) ==
    { Page(kd, k, more, cnt, sch) :
        kd \in (IF k = 1 THEN FirstKinds ELSE NextKinds),
        more \in (IF k < MaxPages THEN BOOLEAN ELSE {FALSE}),
        cnt \in 0..MaxRows }

\* -------------------------------------------------------------- exceptions
\* An exception object: its class, the position of the chain whose call raised
\* it, and (for a server-reported error) the code the page carried.
Exc(type, at, code) == [type |-> type, at |-> at, code |-> code]

NoExc == Exc("none", 0, 0)

\* Python's class hierarchy: KeyboardInterrupt and GeneratorExit derive from
\* BaseException, not from Exception.
IsException(e) ==
    e.type \in {"TransportError", "JSONDecodeError", "ServerReportedError", "KeyError"}

\* ------------------------------------------------------------------- state
VARIABLES
    pc,                 \* the source line the client is at, or who has control
    mode,               \* "execute" | "stream" | "none"
    with_column_types,  \* the argument of the call
    server,             \* the chain of responses of the current query, as served
    raw_data,           \* the local raw_data of the running method / generator
    resp,               \* receive_data: the response / the decoded dict
    genState,           \* data_generator object: none|created|suspended|running|finished
    acc,                \* QueryResult.data, the rows accumulated so far
    rows,               \* iter_receive_result: the rows of the page not yet yielded
    delivered,          \* the rows yielded to the consumer of the row generator
    result,             \* what execute returned
    fetchLog,           \* the next_uri of every connection.next_page call
    disconnects,        \* connection.disconnect calls during this query
    exc,                \* the exception in flight
    fetchExc,           \* the exception receive_data raised (history)
    callerExc,          \* the exception the caller received
    outcome,            \* what the caller saw last
    cancelPending,      \* the consumer closed the rows while a next_uri was pending
    queries,            \* queries issued so far
    pulls,              \* next() calls made on the finished row generator
    connected,          \* the Connection holds an open transport
    teardowns,          \* teardowns of the underlying transport so far
    discRun,            \* Client.disconnect calls the caller made in a row
    url,                \* from_url: the URL given, as urlparse splits it
    kwargs,             \* from_url: the keyword arguments built so far
    items,              \* from_url: the items of parse_qs(url.query) still to visit
    upc                 \* from_url: where the method is

vars ==
    << pc, mode, with_column_types, server, raw_data, resp, genState, acc, rows,
       delivered, result, fetchLog, disconnects, exc, fetchExc, callerExc,
       outcome, cancelPending, queries, pulls, connected, teardowns, discRun,
       url, kwargs, items, upc >>

\* The state of one query, of the connection and of the caller.
clientVars ==
    << pc, mode, with_column_types, server, raw_data, resp, genState, acc, rows,
       delivered, result, fetchLog, disconnects, exc, fetchExc, callerExc,
       outcome, cancelPending, queries, pulls, connected, teardowns, discRun >>

\* The state of Client.from_url.
urlVars == << url, kwargs, items, upc >>

\* The state of the connection and of the caller's run of disconnect calls.
connVars == << connected, teardowns, discRun >>

\* from_url, lines 136-137: settings = {} and kwargs = {}.  keys holds the keys
\* present in kwargs; timeouts and settings are dicts, as sets of <<key, value>>.
NoKwargs ==
    [ keys |-> {}, port |-> 0, database |-> "", user |-> "", password |-> "",
      secure |-> FALSE, client_name |-> "", timeouts |-> {}, settings |-> {} ]

NoUrl ==
    [ scheme |-> "", port |-> 0, path |-> "", username |-> "", password |-> "",
      query |-> << >> ]

NoResult == [paired |-> FALSE, data |-> << >>, columns_types |-> << >>, set |-> FALSE]

ClientInit ==
    /\ pc = "idle"
    /\ mode = "none"
    /\ with_column_types = FALSE
    /\ server = << >>
    /\ raw_data = NoPage
    /\ resp = NoPage
    /\ genState = "none"
    /\ acc = << >>
    /\ rows = << >>
    /\ delivered = << >>
    /\ result = NoResult
    /\ fetchLog = << >>
    /\ disconnects = 0
    /\ exc = NoExc
    /\ fetchExc = NoExc
    /\ callerExc = NoExc
    /\ outcome = "none"
    /\ cancelPending = FALSE
    /\ queries = 0
    /\ pulls = 0
    /\ connected = FALSE
    /\ teardowns = 0
    /\ discRun = 0

\* A client made by its constructor: from_url is not in play.
Init ==
    /\ ClientInit
    /\ url = NoUrl
    /\ kwargs = NoKwargs
    /\ items = << >>
    /\ upc = "off"


\* ------------------------------------------------- the decisions of the code
\* connection.check_error(raw_data): the page carries an embedded error.
HasError(d) == d.error # 0

\* Connection.disconnect releases the transport and is idempotent: the number
\* of teardowns after a call made with the transport open (c) or not.
ConnTeardowns(c, t) == IF c THEN t + 1 ELSE t

\* (variant: the column's name is taken where its type is meant)
ColumnsTypesByName(d) == [i \in 1..Len(d.schema) |-> d.schema[i].name]

\* receive_result, lines 51-54: the type of every field, in field order.
ColumnsTypes(d) == [i \in 1..Len(d.schema) |-> d.schema[i].type]

\* receive_result, lines 55 and 57: the first page is the whole result.
FastPath(d) == d.next_uri = Null

\* receive_result, lines 56 and 58: the value of the fast path.
FastValue(d, w) ==
    [ paired |-> w, data |-> d.data,
      columns_types |-> IF w THEN ColumnsTypes(d) ELSE << >>, set |-> TRUE ]

\* iter_receive_result, line 68.
IterFastPath(d) == d.next_uri = Null

\* (variant: the loop also stops at a page without rows)
LoopContinuesWhileRows(d) == d.next_uri # Null /\ d.data # << >>

\* data_generator, line 31: the condition of the while loop.
LoopContinues(d) == d.next_uri # Null

\* (variant: the falsy test looks at the page's rows)
IsFalsyNoRows(d) == d.kind = "empty" \/ d.data = << >>

\* data_generator, line 34: `not raw_data` is true of the dict without keys.
IsFalsy(d) == d.kind = "empty"

\* (variant: except Exception)
HandlerCatchesExceptionOnly(e) == IsException(e)

\* data_generator, line 38: except (Exception, KeyboardInterrupt).
HandlerCatches(e) == IsException(e) \/ e.type = "KeyboardInterrupt"

\* QueryResult.get_result, materializing: the rows of a page are appended to
\* the rows accumulated so far.
StoreRows(a, d) == a \o d.data

\* QueryResult.get_result, the value returned once the page sequence is drained.
\* (The column-type half of the value is not modelled: nothing here reads it.)
DrainedValue(a, w) ==
    [ paired |-> w, data |-> a, columns_types |-> << >>, set |-> TRUE ]

Last(s) == s[Len(s)]

\* The position of the chain the client holds in raw_data.
CurrentPage == IF fetchLog = << >> THEN 1 ELSE Last(fetchLog)

\* ------------------------------------------------------------------ actions
\* Client.execute -> process_ordinary_query -> receive_result is entered.
Execute ==
    /\ pc \in {"idle", "done"}
    /\ queries < MaxQueries
    /\ \E w \in BOOLEAN : with_column_types' = w
    /\ server' = << >>
    /\ mode' = "execute"
    /\ pc' = "query"
    /\ queries' = queries + 1
    /\ raw_data' = NoPage /\ resp' = NoPage /\ genState' = "none"
    /\ acc' = << >> /\ rows' = << >> /\ delivered' = << >>
    /\ result' = NoResult /\ fetchLog' = << >> /\ disconnects' = 0
    /\ exc' = NoExc /\ fetchExc' = NoExc /\ callerExc' = NoExc
    /\ outcome' = "none" /\ cancelPending' = FALSE /\ pulls' = 0
    /\ discRun' = 0
    /\ UNCHANGED << connected, teardowns >>
    /\ UNCHANGED urlVars

\* Client.iter_receive_result is called: a generator function, so the call only
\* makes the generator object; none of its body has run.
ExecuteStreaming ==
    /\ pc \in {"idle", "done"}
    /\ queries < MaxQueries
    /\ \E w \in BOOLEAN : with_column_types' = w
    /\ server' = << >>
    /\ mode' = "stream"
    /\ pc' = "created"
    /\ queries' = queries + 1
    /\ raw_data' = NoPage /\ resp' = NoPage /\ genState' = "none"
    /\ acc' = << >> /\ rows' = << >> /\ delivered' = << >>
    /\ result' = NoResult /\ fetchLog' = << >> /\ disconnects' = 0
    /\ exc' = NoExc /\ fetchExc' = NoExc /\ callerExc' = NoExc
    /\ outcome' = "none" /\ cancelPending' = FALSE /\ pulls' = 0
    /\ discRun' = 0
    /\ UNCHANGED << connected, teardowns >>
    /\ UNCHANGED urlVars

\* The consumer asks the row generator for its next element.
NextRow ==
    /\ pc \in {"created", "suspended"}
    /\ pc' = IF pc = "created" THEN "query" ELSE "rowloop"
    /\ UNCHANGED << mode, with_column_types, server, raw_data, resp, genState, acc,
                    rows, delivered, result, fetchLog, disconnects, exc, fetchExc,
                    callerExc, outcome, cancelPending, queries, pulls >>
    /\ UNCHANGED connVars
    /\ UNCHANGED urlVars

\* Lines 49 and 66: raw_data = self.connection.query(query, None).
Query ==
    /\ pc = "query"
    /\ \E sch \in Schemas : \E p \in PageOptions(1, sch) :
          /\ server' = << p >>
          /\ \/ /\ p.kind = "xport"
                /\ exc' = Exc("TransportError", 1, 0)
                /\ pc' = "propagate"
                /\ UNCHANGED raw_data
             \/ /\ p.kind = "intr"
                /\ exc' = Exc("KeyboardInterrupt", 1, 0)
                /\ pc' = "propagate"
                /\ UNCHANGED raw_data
             \/ /\ p.kind \in {"ok", "err"}
                /\ raw_data' = p
                /\ pc' = "check"
                /\ UNCHANGED exc
    /\ UNCHANGED << mode, with_column_types, resp, genState, acc, rows,
                    delivered, result, fetchLog, disconnects, fetchExc, callerExc,
                    outcome, cancelPending, queries, pulls >>
    /\ connected' = TRUE
    /\ UNCHANGED << teardowns, discRun >>
    /\ UNCHANGED urlVars

\* Lines 50 and 67: self.connection.check_error(raw_data), outside any try.
CheckFirst ==
    /\ pc = "check"
    /\ \/ /\ HasError(raw_data)
          /\ exc' = Exc("ServerReportedError", 1, raw_data.error)
          /\ pc' = "propagate"
       \/ /\ ~HasError(raw_data)
          /\ pc' = "first"
          /\ UNCHANGED exc
    /\ UNCHANGED << mode, with_column_types, server, raw_data, resp, genState, acc,
                    rows, delivered, result, fetchLog, disconnects, fetchExc,
                    callerExc, outcome, cancelPending, queries, pulls >>
    /\ UNCHANGED connVars
    /\ UNCHANGED urlVars

\* receive_result, lines 51-63: the fast path returns the first page's data;
\* otherwise the generator and the QueryResult are made and get_result starts
\* to pull.
ReceiveResultFirst ==
    /\ pc = "first"
    /\ mode = "execute"
    /\ \/ /\ FastPath(raw_data)
          /\ result' = FastValue(raw_data, with_column_types)
          /\ outcome' = "returned"
          /\ pc' = "idle"
          /\ UNCHANGED genState
       \/ /\ ~FastPath(raw_data)
          /\ genState' = "created"
          /\ pc' = "while"
          /\ UNCHANGED << result, outcome >>
    /\ UNCHANGED << mode, with_column_types, server, raw_data, resp, acc, rows,
                    delivered, fetchLog, disconnects, exc, fetchExc, callerExc,
                    cancelPending, queries, pulls >>
    /\ UNCHANGED connVars
    /\ UNCHANGED urlVars

\* iter_receive_result, lines 68-73: `return raw_data` inside a generator ends
\* the generator (the value rides on StopIteration; nothing is yielded).
IterReceiveResultFirst ==
    /\ pc = "first"
    /\ mode = "stream"
    /\ \/ /\ IterFastPath(raw_data)
          /\ outcome' = "stop"
          /\ pc' = "done"
          /\ UNCHANGED genState
       \/ /\ ~IterFastPath(raw_data)
          /\ genState' = "created"
          /\ pc' = "while"
          /\ UNCHANGED outcome
    /\ UNCHANGED << mode, with_column_types, server, raw_data, resp, acc, rows,
                    delivered, result, fetchLog, disconnects, exc, fetchExc,
                    callerExc, cancelPending, queries, pulls >>
    /\ UNCHANGED connVars
    /\ UNCHANGED urlVars

\* data_generator, line 31: while raw_data['next_uri'] is not None.  The
\* subscript is evaluated outside the try block.
While ==
    /\ pc = "while"
    /\ \/ /\ raw_data.next_uri = Absent
          /\ exc' = Exc("KeyError", CurrentPage, 0)
          /\ genState' = "running"
          /\ pc' = "propagate"
       \/ /\ raw_data.next_uri # Absent
          /\ LoopContinues(raw_data)
          /\ genState' = "running"
          /\ pc' = "fetch"
          /\ UNCHANGED exc
       \/ /\ raw_data.next_uri # Absent
          /\ ~LoopContinues(raw_data)
          /\ genState' = "finished"
          /\ pc' = "drained"
          /\ UNCHANGED exc
    /\ UNCHANGED << mode, with_column_types, server, raw_data, resp, acc, rows,
                    delivered, result, fetchLog, disconnects, fetchExc, callerExc,
                    outcome, cancelPending, queries, pulls >>
    /\ UNCHANGED connVars
    /\ UNCHANGED urlVars

\* What the server answers to a fetch of u: the page already served under u,
\* or, u being the next position of the chain, any response of that position.
ServedAt(u) ==
    IF u \in 1..Len(server) THEN { server[u] }
    ELSE PageOptions(u, server[1].schema)

\* receive_data, line 43: resp = self.connection.next_page(next_uri).
Fetch ==
    /\ pc = "fetch"
    /\ fetchLog' = Append(fetchLog, raw_data.next_uri)
    /\ \E p \in ServedAt(raw_data.next_uri) :
          /\ server' = IF raw_data.next_uri \in 1..Len(server) THEN server
                        ELSE Append(server, p)
          /\ \/ /\ p.kind = "xport"
                /\ exc' = Exc("TransportError", raw_data.next_uri, 0)
                /\ fetchExc' = exc'
                /\ pc' = "except"
                /\ UNCHANGED resp
             \/ /\ p.kind = "intr"
                /\ exc' = Exc("KeyboardInterrupt", raw_data.next_uri, 0)
                /\ fetchExc' = exc'
                /\ pc' = "except"
                /\ UNCHANGED resp
             \/ /\ p.kind \notin {"xport", "intr"}
                /\ resp' = p
                /\ pc' = "decode"
                /\ UNCHANGED << exc, fetchExc >>
    /\ UNCHANGED << mode, with_column_types, raw_data, genState, acc, rows,
                    delivered, result, disconnects, callerExc, outcome,
                    cancelPending, queries, pulls >>
    /\ connected' = TRUE
    /\ UNCHANGED << teardowns, discRun >>
    /\ UNCHANGED urlVars

\* receive_data, line 44: raw_data = json.loads(json.loads(resp.content)).
Decode ==
    /\ pc = "decode"
    /\ \/ /\ resp.kind = "bad"
          /\ exc' = Exc("JSONDecodeError", CurrentPage, 0)
          /\ fetchExc' = exc'
          /\ pc' = "except"
       \/ /\ resp.kind # "bad"
          /\ pc' = "chkerr"
          /\ UNCHANGED << exc, fetchExc >>
    /\ UNCHANGED << mode, with_column_types, server, raw_data, resp, genState, acc,
                    rows, delivered, result, fetchLog, disconnects, callerExc,
                    outcome, cancelPending, queries, pulls >>
    /\ UNCHANGED connVars
    /\ UNCHANGED urlVars

\* (variant: receive_data returns the decoded page without check_error)
CheckErrorSkipped ==
    /\ pc = "chkerr"
    /\ raw_data' = resp
    /\ pc' = "falsy"
    /\ UNCHANGED << mode, with_column_types, server, resp, genState, acc, rows,
                    delivered, result, fetchLog, disconnects, exc, fetchExc,
                    callerExc, outcome, cancelPending, queries, pulls >>
    /\ UNCHANGED connVars
    /\ UNCHANGED urlVars

\* (variant: the fetched page is yielded but not kept as the loop's raw_data)
CheckErrorKeepsRawData ==
    /\ pc = "chkerr"
    /\ \/ /\ HasError(resp)
          /\ exc' = Exc("ServerReportedError", CurrentPage, resp.error)
          /\ fetchExc' = exc'
          /\ pc' = "except"
       \/ /\ ~HasError(resp)
          /\ pc' = "falsy"
          /\ UNCHANGED << exc, fetchExc >>
    /\ UNCHANGED << mode, with_column_types, server, raw_data, resp, genState, acc,
                    rows, delivered, result, fetchLog, disconnects, callerExc,
                    outcome, cancelPending, queries, pulls >>
    /\ UNCHANGED connVars
    /\ UNCHANGED urlVars

\* receive_data, lines 45-46, and the assignment of line 33.
CheckError ==
    /\ pc = "chkerr"
    /\ \/ /\ HasError(resp)
          /\ exc' = Exc("ServerReportedError", CurrentPage, resp.error)
          /\ fetchExc' = exc'
          /\ pc' = "except"
          /\ UNCHANGED raw_data
       \/ /\ ~HasError(resp)
          /\ raw_data' = resp
          /\ pc' = "falsy"
          /\ UNCHANGED << exc, fetchExc >>
    /\ UNCHANGED << mode, with_column_types, server, resp, genState, acc, rows,
                    delivered, result, fetchLog, disconnects, callerExc, outcome,
                    cancelPending, queries, pulls >>
    /\ UNCHANGED connVars
    /\ UNCHANGED urlVars

\* data_generator, lines 34-36: break on a falsy page, else yield it.
Yield ==
    /\ pc = "falsy"
    /\ \/ /\ IsFalsy(raw_data)
          /\ genState' = "finished"
          /\ pc' = "drained"
       \/ /\ ~IsFalsy(raw_data)
          /\ genState' = "suspended"
          /\ pc' = "store"
    /\ UNCHANGED << mode, with_column_types, server, raw_data, resp, acc, rows,
                    delivered, result, fetchLog, disconnects, exc, fetchExc,
                    callerExc, outcome, cancelPending, queries, pulls >>
    /\ UNCHANGED connVars
    /\ UNCHANGED urlVars

\* QueryResult takes the page the generator yielded: the materializing
\* projection accumulates its rows and pulls again; the streaming projection
\* hands its rows to the loop of lines 73-75.
Store ==
    /\ pc = "store"
    /\ \/ /\ mode = "execute"
          /\ acc' = StoreRows(acc, raw_data)
          /\ pc' = "while"
          /\ UNCHANGED rows
       \/ /\ mode = "stream"
          /\ rows' = raw_data.data
          /\ pc' = "rowloop"
          /\ UNCHANGED acc
    /\ UNCHANGED << mode, with_column_types, server, raw_data, resp, genState,
                    delivered, result, fetchLog, disconnects, exc, fetchExc,
                    callerExc, outcome, cancelPending, queries, pulls >>
    /\ UNCHANGED connVars
    /\ UNCHANGED urlVars

\* iter_receive_result, lines 74-75: yield the next row of the page, or, the
\* page being used up, ask the page sequence for the next page.
RowLoop ==
    /\ pc = "rowloop"
    /\ \/ /\ rows # << >>
          /\ delivered' = Append(delivered, Head(rows))
          /\ rows' = Tail(rows)
          /\ outcome' = "row"
          /\ pc' = "suspended"
       \/ /\ rows = << >>
          /\ pc' = "while"
          /\ UNCHANGED << delivered, rows, outcome >>
    /\ UNCHANGED << mode, with_column_types, server, raw_data, resp, genState, acc,
                    result, fetchLog, disconnects, exc, fetchExc, callerExc,
                    cancelPending, queries, pulls >>
    /\ UNCHANGED connVars
    /\ UNCHANGED urlVars

\* (variant: the connection is disconnected when the page sequence ends)
DrainedDisconnects ==
    /\ pc = "drained"
    /\ \/ /\ mode = "execute"
          /\ result' = DrainedValue(acc, with_column_types)
          /\ outcome' = "returned"
          /\ pc' = "idle"
       \/ /\ mode = "stream"
          /\ outcome' = "stop"
          /\ pc' = "done"
          /\ UNCHANGED result
    /\ disconnects' = disconnects + 1
    /\ connected' = FALSE
    /\ teardowns' = ConnTeardowns(connected, teardowns)
    /\ UNCHANGED << mode, with_column_types, server, raw_data, resp, genState, acc,
                    rows, delivered, fetchLog, exc, fetchExc,
                    callerExc, cancelPending, queries, pulls, discRun >>
    /\ UNCHANGED urlVars

\* The page sequence is drained: get_result returns the accumulated rows to
\* receive_result (line 63), or the for loop of line 73 ends and the row
\* generator finishes.
Drained ==
    /\ pc = "drained"
    /\ \/ /\ mode = "execute"
          /\ result' = DrainedValue(acc, with_column_types)
          /\ outcome' = "returned"
          /\ pc' = "idle"
       \/ /\ mode = "stream"
          /\ outcome' = "stop"
          /\ pc' = "done"
          /\ UNCHANGED result
    /\ UNCHANGED << mode, with_column_types, server, raw_data, resp, genState, acc,
                    rows, delivered, fetchLog, disconnects, exc, fetchExc,
                    callerExc, cancelPending, queries, pulls >>
    /\ UNCHANGED connVars
    /\ UNCHANGED urlVars

\* data_generator, line 38: does the except clause match the exception.
Except ==
    /\ pc = "except"
    /\ pc' = IF HandlerCatches(exc) THEN "handler" ELSE "propagate"
    /\ UNCHANGED << mode, with_column_types, server, raw_data, resp, genState, acc,
                    rows, delivered, result, fetchLog, disconnects, exc, fetchExc,
                    callerExc, outcome, cancelPending, queries, pulls >>
    /\ UNCHANGED connVars
    /\ UNCHANGED urlVars

\* (variant: the handler re-raises without disconnecting)
HandlerPass ==
    /\ pc = "handler"
    /\ pc' = "reraise"
    /\ UNCHANGED << mode, with_column_types, server, raw_data, resp, genState, acc,
                    rows, delivered, result, fetchLog, disconnects, exc, fetchExc,
                    callerExc, outcome, cancelPending, queries, pulls >>
    /\ UNCHANGED connVars
    /\ UNCHANGED urlVars

\* data_generator, line 39: self.disconnect() -> disconnect_connection ->
\* self.connection.disconnect() (lines 23-27).
Handler ==
    /\ pc = "handler"
    /\ disconnects' = disconnects + 1
    /\ pc' = "reraise"
    /\ UNCHANGED << mode, with_column_types, server, raw_data, resp, genState, acc,
                    rows, delivered, result, fetchLog, exc, fetchExc, callerExc,
                    outcome, cancelPending, queries, pulls >>
    /\ connected' = FALSE
    /\ teardowns' = ConnTeardowns(connected, teardowns)
    /\ UNCHANGED discRun
    /\ UNCHANGED urlVars

\* data_generator, line 40: a bare raise re-raises the exception being handled.
Reraise ==
    /\ pc = "reraise"
    /\ pc' = "propagate"
    /\ UNCHANGED << mode, with_column_types, server, raw_data, resp, genState, acc,
                    rows, delivered, result, fetchLog, disconnects, exc, fetchExc,
                    callerExc, outcome, cancelPending, queries, pulls >>
    /\ UNCHANGED connVars
    /\ UNCHANGED urlVars

\* The exception leaves data_generator (which is finished by it), get_result and
\* receive_result / iter_receive_result, none of which handles it.  A
\* GeneratorExit ends in close() returning to the consumer; every other
\* exception reaches the caller.
Propagate ==
    /\ pc = "propagate"
    /\ genState' = IF genState = "none" THEN "none" ELSE "finished"
    /\ \/ /\ exc.type = "GeneratorExit"
          /\ outcome' = "closed"
          /\ pc' = "done"
          /\ UNCHANGED callerExc
       \/ /\ exc.type # "GeneratorExit"
          /\ outcome' = "raised"
          /\ callerExc' = exc
          /\ pc' = IF mode = "execute" THEN "idle" ELSE "done"
    /\ UNCHANGED << mode, with_column_types, server, raw_data, resp, acc, rows,
                    delivered, result, fetchLog, disconnects, exc, fetchExc,
                    cancelPending, queries, pulls >>
    /\ UNCHANGED connVars
    /\ UNCHANGED urlVars

\* The consumer closes the row generator.  Not started, it just ends.  Suspended
\* at line 75 (no try around it), it ends and releases the page sequence, whose
\* generator is suspended at the yield of line 36, inside the try: GeneratorExit
\* is raised there.
Close ==
    /\ \/ /\ pc = "created"
          /\ outcome' = "closed"
          /\ pc' = "done"
          /\ UNCHANGED << exc, cancelPending >>
       \/ /\ pc = "suspended"
          /\ exc' = Exc("GeneratorExit", CurrentPage, 0)
          /\ cancelPending' = (raw_data.next_uri \notin {Null, Absent})
          /\ pc' = "except"
          /\ UNCHANGED outcome
    /\ UNCHANGED << mode, with_column_types, server, raw_data, resp, genState, acc,
                    rows, delivered, result, fetchLog, disconnects, fetchExc,
                    callerExc, queries, pulls >>
    /\ UNCHANGED connVars
    /\ UNCHANGED urlVars

\* (variant: Client.disconnect tears the transport down whatever its state)
DisconnectTearsDownAlways ==
    /\ pc \in {"idle", "done"}
    /\ discRun < MaxDisconnects
    /\ discRun' = discRun + 1
    /\ connected' = FALSE
    /\ teardowns' = teardowns + 1
    /\ UNCHANGED << pc, mode, with_column_types, server, raw_data, resp, genState,
                    acc, rows, delivered, result, fetchLog, disconnects, exc,
                    fetchExc, callerExc, outcome, cancelPending, queries, pulls >>
    /\ UNCHANGED urlVars

\* Client.disconnect, lines 23-27, called by the caller between queries:
\* disconnect_connection -> self.connection.disconnect().
Disconnect ==
    /\ pc \in {"idle", "done"}
    /\ discRun < MaxDisconnects
    /\ discRun' = discRun + 1
    /\ connected' = FALSE
    /\ teardowns' = ConnTeardowns(connected, teardowns)
    /\ UNCHANGED << pc, mode, with_column_types, server, raw_data, resp, genState,
                    acc, rows, delivered, result, fetchLog, disconnects, exc,
                    fetchExc, callerExc, outcome, cancelPending, queries, pulls >>
    /\ UNCHANGED urlVars

\* (variant: a finished row sequence starts over when asked again)
NextAfterEndRestarts ==
    /\ pc = "done"
    /\ pulls < MaxPulls
    /\ pulls' = pulls + 1
    /\ pc' = "query"
    /\ UNCHANGED << mode, with_column_types, server, raw_data, resp, genState,
                    acc, rows, delivered, result, fetchLog, disconnects, exc,
                    fetchExc, callerExc, outcome, cancelPending, queries >>
    /\ UNCHANGED connVars
    /\ UNCHANGED urlVars

\* next() on a generator that has finished (returned, raised or was closed)
\* raises StopIteration without running any of its code.
NextAfterEnd ==
    /\ pc = "done"
    /\ pulls < MaxPulls
    /\ pulls' = pulls + 1
    /\ outcome' = "stop"
    /\ UNCHANGED << pc, mode, with_column_types, server, raw_data, resp, genState,
                    acc, rows, delivered, result, fetchLog, disconnects, exc,
                    fetchExc, callerExc, cancelPending, queries >>
    /\ UNCHANGED connVars
    /\ UNCHANGED urlVars

Next ==
    \/ Execute
    \/ ExecuteStreaming
    \/ NextRow
    \/ Query
    \/ CheckFirst
    \/ ReceiveResultFirst
    \/ IterReceiveResultFirst
    \/ While
    \/ Fetch
    \/ Decode
    \/ CheckError
    \/ Yield
    \/ Store
    \/ RowLoop
    \/ Drained
    \/ Except
    \/ Handler
    \/ Reraise
    \/ Propagate
    \/ Close
    \/ NextAfterEnd
    \/ Disconnect

Spec == Init /\ [][Next]_vars

\* ------------------------------------------------------------ Client.from_url
\* The options a query string is made of: name=value, value possibly blank.
Options ==
    { [name |-> "secure", value |-> v] : v \in {"false", "true", ""} }
    \cup { [name |-> "connect_timeout", value |-> "5"],
           [name |-> "client_name", value |-> "cli"] }
    \cup { [name |-> "x", value |-> v] : v \in {"1", "2"} }

RECURSIVE QueriesOfLen(_)
QueriesOfLen(n) ==
    IF n = 0 THEN { << >> }
    ELSE { Append(q, o) : q \in QueriesOfLen(n - 1), o \in Options }

\* The URLs given to from_url, as urlparse splits them: port 0, username ""
\* and password "" stand for None (the part is not in the URL).
Urls ==
    { [ scheme |-> sc, port |-> po, path |-> pa, username |-> us.u,
        password |-> us.p, query |-> q ] :
        sc \in {"http", "https"}, po \in {0, 1234}, pa \in {"", "/db"},
        us \in { [u |-> "", p |-> ""], [u |-> "u", p |-> "p"] },
        q \in UNION { QueriesOfLen(n) : n \in 0..MaxOptions } }

\* parse_qs drops the options with a blank value (keep_blank_values is off).
NonBlank(q) == SelectSeq(q, LAMBDA o : o.value # "")

\* The names of q in the order of their first occurrence (dict insertion order).
RECURSIVE FirstNames(_, _)
FirstNames(q, seen) ==
    IF q = << >> THEN << >>
    ELSE IF Head(q).name \in seen THEN FirstNames(Tail(q), seen)
    ELSE << Head(q).name >> \o FirstNames(Tail(q), seen \cup { Head(q).name })

\* The values given to name nm, in order.
RECURSIVE ValuesOf(_, _)
ValuesOf(nm, q) ==
    IF q = << >> THEN << >>
    ELSE IF Head(q).name = nm THEN << Head(q).value >> \o ValuesOf(nm, Tail(q))
    ELSE ValuesOf(nm, Tail(q))

\* parse_qs(url.query).items(): every name with the list of its values.
ParseQs(q) ==
    [ i \in 1..Len(FirstNames(NonBlank(q), {})) |->
        [ name  |-> FirstNames(NonBlank(q), {})[i],
          value |-> ValuesOf(FirstNames(NonBlank(q), {})[i], NonBlank(q)) ] ]

\* asbool(value) of databend_driver.util.helper.
AsBool(v) == v \in {"true", "True", "1", "yes", "on"}

\* float(value), on the numerals the options carry.
FloatOf(v) == CASE v = "1" -> 1 [] v = "2" -> 2 [] v = "5" -> 5 [] OTHER -> 0

\* from_url, lines 165-169.
Timeouts == {"connect_timeout", "send_receive_timeout", "sync_request_timeout"}

\* from_url, line 146: url.path.replace('/', '', 1).
StripSlash(pa) == IF pa = "/db" THEN "db" ELSE pa

\* from_url, lines 139-157: the keyword arguments taken from the parts of the
\* URL before the query string is read.
BaseKwargs(u) ==
    [ keys |-> (IF u.port # 0 THEN {"port"} ELSE {})
                 \cup (IF StripSlash(u.path) # "" THEN {"database"} ELSE {})
                 \cup (IF u.username # "" THEN {"user"} ELSE {})
                 \cup (IF u.password # "" THEN {"password"} ELSE {})
                 \cup (IF u.scheme = "https" THEN {"secure"} ELSE {}),
      port |-> u.port,
      database |-> StripSlash(u.path),
      user |-> u.username,
      password |-> u.password,
      secure |-> (u.scheme = "https"),
      client_name |-> "",
      timeouts |-> {},
      settings |-> {} ]

\* from_url, lines 162-163: inside the loop, before the option is looked at.
SchemeSecure(u, kw) ==
    IF u.scheme = "https"
    THEN [kw EXCEPT !.secure = TRUE, !.keys = @ \cup {"secure"}]
    ELSE kw

\* from_url, lines 171-180: the option it.name with its first value.
ApplyOption(kw, it) ==
    IF it.name = "client_name"
    THEN [kw EXCEPT !.client_name = it.value[1], !.keys = @ \cup {"client_name"}]
    ELSE IF it.name = "secure"
    THEN [kw EXCEPT !.secure = AsBool(it.value[1]), !.keys = @ \cup {"secure"}]
    ELSE IF it.name \in Timeouts
    THEN [kw EXCEPT !.timeouts =
             { t \in @ : t[1] # it.name } \cup { << it.name, FloatOf(it.value[1]) >> },
                    !.keys = @ \cup { it.name }]
    ELSE [kw EXCEPT !.settings =
             { t \in @ : t[1] # it.name } \cup { << it.name, it.value[1] >> }]

\* from_url, lines 134-157.
FromUrlParse ==
    /\ upc = "start"
    /\ kwargs' = BaseKwargs(url)
    /\ items' = ParseQs(url.query)
    /\ upc' = "loop"
    /\ UNCHANGED url
    /\ UNCHANGED clientVars

\* from_url, lines 159-180: one turn of the loop over the options.
FromUrlOption ==
    /\ upc = "loop"
    /\ items # << >>
    /\ kwargs' = IF Head(items).value = << >> THEN kwargs
                 ELSE ApplyOption(SchemeSecure(url, kwargs), Head(items))
    /\ items' = Tail(items)
    /\ UNCHANGED << url, upc >>
    /\ UNCHANGED clientVars

\* from_url, lines 182-185: kwargs['settings'] = settings, and the client is
\* made from the keyword arguments.
FromUrlReturn ==
    /\ upc = "loop"
    /\ items = << >>
    /\ kwargs' = IF kwargs.settings # {}
                 THEN [kwargs EXCEPT !.keys = @ \cup {"settings"}]
                 ELSE kwargs
    /\ upc' = "done"
    /\ UNCHANGED << url, items >>
    /\ UNCHANGED clientVars

InitUrl ==
    /\ ClientInit
    /\ url \in Urls
    /\ kwargs = NoKwargs
    /\ items = << >>
    /\ upc = "start"

NextUrl ==
    \/ FromUrlParse
    \/ FromUrlOption
    \/ FromUrlReturn

SpecUrl == InitUrl /\ [][NextUrl]_vars


\* ------------------------------------------------------ notions of the claims
Range(s) == { s[i] : i \in 1..Len(s) }

\* The rows of all pages of a chain, in page order.
RECURSIVE ConcatData(_)
ConcatData(s) == IF s = << >> THEN << >> ELSE Head(s).data \o ConcatData(Tail(s))

\* Every response of the chain is a well-formed page without error.
FaultFree(s) == \A k \in 1..Len(s) : s[k].kind = "ok"

\* The rows of s that come from page k.
RowsOf(k, s) == SelectSeq(s, LAMBDA r : r[1] = k)

\* The uris 2..n in order: one fetch per page after the first.
UrisTo(n) == [i \in 1..(n - 1) |-> i + 1]

\* The caller has control and no call is in progress.
AtRest == pc \in {"idle", "done"}

ExecuteReturned == mode = "execute" /\ outcome = "returned"

\* The row generator was drained by the consumer and ended on its own.
StreamDrained ==
    /\ mode = "stream"
    /\ pc = "done"
    /\ server # << >>
    /\ exc = NoExc

Produced == IF mode = "execute" THEN result.data ELSE delivered

\* ---------------------------------------------------------------------- C1
\* C1 (as claimed): execute of a fault-free query of N >= 2 pages returns the
\* rows of all N pages, the first page's included, in page order and with the
\* order inside every page kept.
C1_Claim ==
    (ExecuteReturned /\ FaultFree(server) /\ Len(server) >= 2)
        => result.data = ConcatData(server)

\* ---------------------------------------------------------------------- C2
\* C2 (as claimed): for a first page with next_uri = null and no error, the row
\* generator of iter_receive_result, fully drained, yields exactly the rows of
\* that page in order, and no continuation fetch is issued.
C2_Claim ==
    (StreamDrained /\ Len(server) = 1 /\ server[1].kind = "ok"
        /\ server[1].next_uri = Null)
        => (delivered = server[1].data /\ fetchLog = << >>)

C4_Claim ==
    (AtRest /\ server # << >> /\ Last(server).kind = "err")
        => /\ callerExc = Exc("ServerReportedError", Len(server), Last(server).error)
           /\ disconnects = 1
           /\ ~result.set

\* ---------------------------------------------------------------------- C5
\* C5: when a page fetch fails inside receive_data (transport error, decode
\* error, embedded error), connection.disconnect has been called by the time
\* the failure reaches the caller, the failed fetch is the last fetch of the
\* query (no retry), and the caller receives the very exception the fetch
\* raised; in execute and in the streaming mode alike.
C5_FetchFailureDisconnectsAndPropagates ==
    (fetchExc.type \in {"TransportError", "JSONDecodeError", "ServerReportedError"})
        => /\ callerExc \in {NoExc, fetchExc}
           /\ callerExc # NoExc => disconnects >= 1
           /\ AtRest => callerExc = fetchExc
           /\ fetchLog = UrisTo(fetchExc.at)
           /\ ~result.set

C5_Witness ==
    /\ mode = "stream"
    /\ fetchExc.type = "JSONDecodeError"
    /\ callerExc = fetchExc
    /\ delivered # << >>
    /\ disconnects = 1

\* ---------------------------------------------------------------------- C6
\* C6: when KeyboardInterrupt arrives while the fetch of page k is outstanding,
\* connection.disconnect is called exactly once, the caller receives that very
\* interrupt, no row of page k is delivered, and no fetch of page k+1 is issued.
C6_InterruptDisconnectsOnce ==
    (fetchExc.type = "KeyboardInterrupt")
        => /\ callerExc \in {NoExc, fetchExc}
           /\ disconnects <= 1
           /\ callerExc # NoExc => disconnects = 1
           /\ AtRest => (callerExc = fetchExc /\ disconnects = 1)
           /\ fetchLog = UrisTo(fetchExc.at)
           /\ RowsOf(fetchExc.at, delivered) = << >>
           /\ RowsOf(fetchExc.at, acc) = << >>
           /\ ~result.set

C6_Witness ==
    /\ mode = "stream"
    /\ AtRest
    /\ callerExc.type = "KeyboardInterrupt"
    /\ callerExc.at = 3
    /\ Len(server[3].data) > 0
    /\ delivered # << >>
    /\ disconnects = 1

\* ---------------------------------------------------------------------- C7
\* C7 (as claimed): when the consumer closes the row sequence while the page
\* sequence is suspended between two fetches with a next_uri still pending, the
\* connection has been disconnected by the time control is back at the caller.
C7_Claim ==
    (pc = "done" /\ cancelPending) => disconnects >= 1

\* ---------------------------------------------------------------------- C8
\* C8: during execute of a fault-free query of N >= 2 pages exactly N-1
\* continuation fetches are issued: one per page after the first, in chain
\* order, the last of them for the page whose next_uri is null.
C8_ExactlyNMinusOneFetches ==
    (ExecuteReturned /\ FaultFree(server) /\ Len(server) >= 2)
        => /\ fetchLog = UrisTo(Len(server))
           /\ Last(server).next_uri = Null
           /\ \A k \in 1..(Len(server) - 1) : server[k].next_uri # Null

C8_Witness ==
    /\ ExecuteReturned
    /\ FaultFree(server)
    /\ Len(server) = 3
    /\ Len(fetchLog) = 2

\* ---------------------------------------------------------------------- C9
\* C9: a continuation page k > 1 with zero rows and a non-null next_uri adds no
\* rows and does not end the sequence: the fetch of page k+1 is issued and the
\* rows of every later page are produced, in order.
ZeroRowPage(k) ==
    /\ k \in 2..Len(server)
    /\ server[k].data = << >>
    /\ server[k].next_uri # Null

C9_EmptyPageIsNotFinal ==
    ((ExecuteReturned \/ StreamDrained) /\ FaultFree(server))
        => \A k \in 2..Len(server) :
              ZeroRowPage(k)
                 => /\ RowsOf(k, Produced) = << >>
                    /\ (k + 1) \in Range(fetchLog)
                    /\ \A j \in (k + 1)..Len(server) :
                          RowsOf(j, Produced) = server[j].data

C9_Witness ==
    /\ StreamDrained
    /\ FaultFree(server)
    /\ Len(server) = 3
    /\ ZeroRowPage(2)
    /\ delivered = server[3].data
    /\ Len(delivered) = 2

\* --------------------------------------------------------------------- C10
\* C10: Exhausted and Failed are terminal.  Once data_generator has finished
\* (a page had next_uri = null, or it raised), and once the row generator has
\* finished, a further request for an element yields nothing, no further
\* next_page call and no further disconnect is made, and the sequence does not
\* restart; only a new query starts a new sequence.
C10_TerminalStatesAreTerminal ==
    [][ ((pc = "done" \/ genState = "finished") /\ queries' = queries)
           => /\ fetchLog' = fetchLog
              /\ disconnects' = disconnects
              /\ delivered' = delivered
              /\ acc' = acc
              /\ server' = server
              /\ (genState = "finished" => genState' = "finished")
              /\ (pc = "done" => pc' = "done") ]_vars

C10_Witness ==
    /\ pc = "done"
    /\ genState = "finished"
    /\ pulls = 2
    /\ delivered # << >>
    /\ fetchLog # << >>


\* --------------------------------------------------------------------- C11
\* receive_result as a function of the chain it is served: the fast path gives
\* the first page's data, the slow path the rows QueryResult accumulates from
\* the pages data_generator yields (the pages after the first).
RECURSIVE DrainRows(_, _)
DrainRows(a, s) ==
    IF s = << >> THEN a ELSE DrainRows(StoreRows(a, Head(s)), Tail(s))

ExecuteRowsOn(s) ==
    IF FastPath(s[1]) THEN FastValue(s[1], FALSE).data
    ELSE DrainedValue(DrainRows(<< >>, Tail(s)), FALSE).data

\* execute returns ExecuteRowsOn of the chain it was served (the link between
\* the function and the run).
ExecuteIsFunctionOfChain ==
    (ExecuteReturned /\ FaultFree(server)) => result.data = ExecuteRowsOn(server)

\* C11 (as claimed): for a fault-free query of any number of pages, the rows
\* yielded by the fully drained row generator of iter_receive_result equal the
\* row list execute returns for the same server responses.
C11_Claim ==
    (StreamDrained /\ FaultFree(server)) => delivered = ExecuteRowsOn(server)

\* --------------------------------------------------------------------- C15
\* C15 (as claimed): in the streaming mode the fetch of page k+1 is issued only
\* after every row of page k has been delivered to the consumer: at every
\* point, each page whose successor has been fetched has all its rows
\* delivered.
C15_Claim ==
    mode = "stream"
        => \A j \in 1..Len(fetchLog) :
              (j <= Len(server) /\ server[j].kind = "ok")
                 => RowsOf(j, delivered) = server[j].data

\* --------------------------------------------------------------------- C16
\* The query has raised nothing so far.
NoFailure == exc = NoExc /\ fetchExc = NoExc /\ callerExc = NoExc

C17_Claim ==
    (callerExc.type \in {"JSONDecodeError", "KeyError"} /\ callerExc.at >= 2)
        => disconnects >= 1

\* --------------------------------------------------------------------- C18
\* C18: check_error runs on every page: on the first page before a field of it
\* is read, on every later page before data_generator yields it; so no row of
\* a page that carries an embedded error is ever accumulated, returned or
\* delivered.
C18_ErrorCheckedOnEveryPage ==
    /\ pc \in {"first", "falsy", "store"} => ~HasError(raw_data)
    /\ \A k \in 1..Len(server) :
          HasError(server[k])
             => /\ RowsOf(k, acc) = << >>
                /\ RowsOf(k, rows) = << >>
                /\ RowsOf(k, delivered) = << >>
                /\ RowsOf(k, result.data) = << >>

C18_Witness ==
    /\ mode = "stream"
    /\ callerExc.type = "ServerReportedError"
    /\ callerExc.at = 3
    /\ Len(server[3].data) = 2
    /\ delivered # << >>

C14_ConnectionIntactAfterSuccess ==
    ((ExecuteReturned \/ StreamDrained) /\ FaultFree(server))
        => /\ disconnects = 0
           /\ discRun = 0 => connected
           /\ ExecuteReturned =>
                 /\ result.data = ExecuteRowsOn(server)
                 /\ Len(server) >= 2 => fetchLog = UrisTo(Len(server))
                 /\ Len(server) = 1 => fetchLog = << >>

C14_Witness ==
    /\ queries = 2
    /\ ExecuteReturned
    /\ FaultFree(server)
    /\ Len(server) = 3
    /\ teardowns = 0
    /\ connected
    /\ result.data # << >>


\* --------------------------------------------------------------------- C12
\* The query string gives secure=false (as the first value of secure).
ExplicitSecureFalse(u) ==
    /\ "secure" \in Range(FirstNames(NonBlank(u.query), {}))
    /\ ValuesOf("secure", NonBlank(u.query))[1] = "false"

\* https://u:p@host:1234/db?secure=false&connect_timeout=5&x=1
ExampleUrl ==
    [ scheme |-> "https", port |-> 1234, path |-> "/db", username |-> "u",
      password |-> "p",
      query |-> << [name |-> "secure", value |-> "false"],
                   [name |-> "connect_timeout", value |-> "5"],
                   [name |-> "x", value |-> "1"] >> ]

\* C12 (as claimed): for every https URL whose query string has secure=false,
\* whatever options go with it and in whatever order, from_url derives
\* secure = false; and the example URL gives secure = false,
\* connect_timeout = 5.0, database = "db" and the server setting x = "1".
C12_Claim ==
    upc = "done"
        => /\ (url.scheme = "https" /\ ExplicitSecureFalse(url))
                 => ("secure" \in kwargs.keys /\ kwargs.secure = FALSE)
           /\ url = ExampleUrl
                 => /\ kwargs.secure = FALSE
                    /\ << "connect_timeout", 5 >> \in kwargs.timeouts
                    /\ kwargs.database = "db"
                    /\ << "x", "1" >> \in kwargs.settings

====
